---- MODULE Spec2Model ----
(***************************************************************************)
(* Model of the symbolizing tracer example (examples/tracer/src/main.rs):  *)
(* the symbol-table loader (init_tid), Context::resolve, the exec / read / *)
(* write / mmap callbacks that fill a worker's batch, the renderer         *)
(* (Tracer::trace) and the main thread that waits for the target process.  *)
(*                                                                         *)
(* Text is a sequence of one-character strings.  A u64 is an integer in    *)
(* 0 .. 2^WordBits - 1: the word is narrowed so that the whole address     *)
(* space can be enumerated, and every arithmetic step keeps that width.    *)
(***************************************************************************)
EXTENDS Integers, Sequences, FiniteSets, TLC

VARIABLES
    fs,        \* symbols.txt: [readable, lines]
    build,     \* how the binary was built: [bsearch], the std's binary search
    tstate,    \* per worker thread: "start", "ready", "traced", "panicked"
    symbols,   \* per worker: Context.symbols, a sequence of <<address, name>>
    batch,     \* per worker: the Vec<Operation> the callbacks append to
    stdout,    \* per worker: the lines it has printed
    stderr,    \* per worker: the diagnostics it has printed
    log,       \* per worker, history: the callbacks delivered to it, in order
    mainpc     \* main thread: "waiting", "waited", "joined", "exited"

vars == <<fs, build, tstate, symbols, batch, stdout, stderr, log, mainpc>>

(***************************************************************************)
(* Bounds                                                                  *)
(***************************************************************************)
\* width of the modelled u64 word, in bits
WordBits == 4
\* longest symbols.txt, in lines, that the loader is tried on
MaxLines == 3
\* callbacks (events and flushes) delivered in one run of the pipeline
MaxCallbacks == 3

\* create_cannoli::<Tracer>(2)
NumWorkers == 2

Workers == 1..NumWorkers

RECURSIVE Pow2(_)
Pow2(n) == IF n = 0 THEN 1 ELSE 2 * Pow2(n - 1)

\* u64::MAX + 1 at the modelled width
Modulus == Pow2(WordBits)

U64 == 0..(Modulus - 1)

(***************************************************************************)
(* Text                                                                    *)
(***************************************************************************)
LowerDigits == <<"0","1","2","3","4","5","6","7","8","9","a","b","c","d","e","f">>
UpperDigits == <<"0","1","2","3","4","5","6","7","8","9","A","B","C","D","E","F">>

\* char::to_digit(16): the digit's value, or -1 when c is not a hex digit
to_digit(c) ==
    IF \E i \in 1..16 : LowerDigits[i] = c
    THEN (CHOOSE i \in 1..16 : LowerDigits[i] = c) - 1
    ELSE IF \E i \in 1..16 : UpperDigits[i] = c
         THEN (CHOOSE i \in 1..16 : UpperDigits[i] = c) - 1
         ELSE -1

\* checked_mul(16) then checked_add(digit) over the digits, left to right
RECURSIVE parse_digits(_, _)
parse_digits(s, acc) ==
    IF s = <<>> THEN [ok |-> TRUE, val |-> acc]
    ELSE LET d == to_digit(Head(s)) IN
         IF d < 0 THEN [ok |-> FALSE, val |-> 0]
         ELSE IF acc * 16 + d >= Modulus THEN [ok |-> FALSE, val |-> 0]
         ELSE parse_digits(Tail(s), acc * 16 + d)

\* u64::from_str_radix(src, 16): empty input, a lone sign, a non-digit and
\* an overflow are errors; one leading "+" is accepted
from_str_radix(src) ==
    IF src = <<>> THEN [ok |-> FALSE, val |-> 0]
    ELSE IF Len(src) = 1 /\ Head(src) \in {"+", "-"} THEN [ok |-> FALSE, val |-> 0]
    ELSE IF Head(src) = "+" THEN parse_digits(Tail(src), 0)
    ELSE parse_digits(src, 0)

\* str::splitn(n, ' '): at most n pieces, the last one the unsplit remainder
RECURSIVE splitn(_, _)
splitn(s, n) ==
    IF n <= 1 \/ ~(\E i \in 1..Len(s) : s[i] = " ") THEN <<s>>
    ELSE LET i == CHOOSE k \in 1..Len(s) :
                      s[k] = " " /\ \A j \in 1..(k - 1) : s[j] # " "
         IN <<SubSeq(s, 1, i - 1)>> \o splitn(SubSeq(s, i + 1, Len(s)), n - 1)

\* the digits of n in the given radix, most significant first
RECURSIVE to_digits(_, _)
to_digits(n, radix) ==
    IF n < radix THEN <<LowerDigits[n + 1]>>
    ELSE Append(to_digits(n \div radix, radix), LowerDigits[(n % radix) + 1])

RECURSIVE zeros(_)
zeros(n) == IF n <= 0 THEN <<>> ELSE <<"0">> \o zeros(n - 1)

\* {:#x}
fmt_hex(n) == <<"0", "x">> \o to_digits(n, 16)

\* {:#018x}: "0x" and the digits, zero-padded to 18 characters in all
fmt_hex018(n) ==
    LET d == to_digits(n, 16) IN <<"0", "x">> \o zeros(16 - Len(d)) \o d

(***************************************************************************)
(* The symbol table loader                                                 *)
(***************************************************************************)
\* one iteration of the for loop over data.lines()
parse_line(line) ==
    LET chunk == splitn(line, 3)
        addr  == from_str_radix(chunk[1])
    IN  IF ~addr.ok THEN [skip |-> TRUE, panic |-> FALSE, entry |-> <<>>]
        ELSE IF Len(chunk) < 3
             THEN [skip |-> FALSE, panic |-> TRUE, entry |-> <<>>]
             ELSE [skip |-> FALSE, panic |-> FALSE,
                   entry |-> <<addr.val, chunk[3]>>]

\* the for loop: pushes the entries in file order, stops at a panic
RECURSIVE load_lines(_, _)
load_lines(lines, acc) ==
    IF lines = <<>> THEN [panic |-> FALSE, symbols |-> acc]
    ELSE LET p == parse_line(Head(lines)) IN
         IF p.panic THEN [panic |-> TRUE, symbols |-> acc]
         ELSE IF p.skip THEN load_lines(Tail(lines), acc)
         ELSE load_lines(Tail(lines), Append(acc, p.entry))

\* where a stable sort puts x in an already sorted s: after every key <= x's
insert_sorted(s, x) ==
    LET n == Cardinality({i \in 1..Len(s) : s[i][1] <= x[1]})
    IN  SubSeq(s, 1, n) \o <<x>> \o SubSeq(s, n + 1, Len(s))

RECURSIVE sort_from(_, _)
sort_from(done, rest) ==
    IF rest = <<>> THEN done
    ELSE sort_from(insert_sorted(done, Head(rest)), Tail(rest))

\* mutant of sort_by_key: the sort is left out
sort_omitted(s) == s

\* symbols.sort_by_key(|x| x.0): a stable sort by address
sort_by_key(s) == sort_from(<<>>, s)

(***************************************************************************)
(* Context::resolve                                                        *)
(***************************************************************************)
\* slice::binary_search_by, the loop that returns at the first Equal
\* (indices are 0-based as in the code; s[i + 1] is element i)
RECURSIVE bsearch_early_exit(_, _, _, _)
bsearch_early_exit(s, key, left, right) ==
    IF left >= right THEN [ok |-> FALSE, pos |-> left]
    ELSE LET mid == left + ((right - left) \div 2)
             k   == s[mid + 1][1]
         IN  IF k < key THEN bsearch_early_exit(s, key, mid + 1, right)
             ELSE IF k > key THEN bsearch_early_exit(s, key, left, mid)
             ELSE [ok |-> TRUE, pos |-> mid]

\* slice::binary_search_by, the loop without an early exit
RECURSIVE bsearch_branchless(_, _, _, _)
bsearch_branchless(s, key, base, size) ==
    IF size = 0 THEN [ok |-> FALSE, pos |-> 0]
    ELSE IF size > 1
    THEN LET half == size \div 2
             mid  == base + half
         IN  bsearch_branchless(s, key,
                 IF s[mid + 1][1] > key THEN base ELSE mid, size - half)
    ELSE LET k == s[base + 1][1] IN
         IF k = key THEN [ok |-> TRUE, pos |-> base]
         ELSE [ok |-> FALSE, pos |-> base + (IF k < key THEN 1 ELSE 0)]

\* symbols.binary_search_by_key(&addr, |x| x.0), as the build's std does it
binary_search_by_key(s, key) ==
    IF build.bsearch = "early_exit"
    THEN bsearch_early_exit(s, key, 0, Len(s))
    ELSE bsearch_branchless(s, key, 0, Len(s))

Unknown == <<"<","u","n","k","n","o","w","n",">">>

\* mutant of wrapping_sub: the operands are swapped
wrapping_sub_swapped(a, b) == (b - a + Modulus) % Modulus

\* addr - sa in a u64
wrapping_sub(a, b) == (a - b + Modulus) % Modulus

\* which arm of the match, and of the if let, resolve takes
resolve_arm(s, addr) ==
    LET r == binary_search_by_key(s, addr) IN
    IF r.ok THEN "exact"
    ELSE IF r.pos - 1 >= 0 /\ r.pos - 1 < Len(s) THEN "below"
    ELSE "unknown"

\* mutant of resolve: the fallback reports offset 0
resolve_unknown_zero(s, addr) ==
    LET r == binary_search_by_key(s, addr) IN
    IF r.ok
    THEN [addr |-> addr, symbol |-> s[r.pos + 1][2], offset |-> 0]
    ELSE IF r.pos - 1 >= 0 /\ r.pos - 1 < Len(s)
         THEN [addr |-> addr, symbol |-> s[r.pos][2],
               offset |-> (addr - s[r.pos][1] + Modulus) % Modulus]
         ELSE [addr |-> addr, symbol |-> Unknown, offset |-> 0]

\* mutant of resolve: an exact match is resolved like a miss, against the
\* entry before it
resolve_exact_as_below(s, addr) ==
    LET r == binary_search_by_key(s, addr) IN
    IF r.pos - 1 >= 0 /\ r.pos - 1 < Len(s)
    THEN [addr |-> addr, symbol |-> s[r.pos][2],
          offset |-> (addr - s[r.pos][1] + Modulus) % Modulus]
    ELSE [addr |-> addr, symbol |-> Unknown, offset |-> addr]

\* mutant of resolve: the candidate is symbols.get(pos), the entry above
resolve_no_checked_sub(s, addr) ==
    LET r == binary_search_by_key(s, addr) IN
    IF r.ok
    THEN [addr |-> addr, symbol |-> s[r.pos + 1][2], offset |-> 0]
    ELSE IF r.pos < Len(s)
         THEN [addr |-> addr, symbol |-> s[r.pos + 1][2],
               offset |-> (addr - s[r.pos + 1][1] + Modulus) % Modulus]
         ELSE [addr |-> addr, symbol |-> Unknown, offset |-> addr]

\* Context::resolve when it returns
resolve(s, addr) ==
    LET r == binary_search_by_key(s, addr) IN
    IF r.ok
    THEN [addr |-> addr, symbol |-> s[r.pos + 1][2], offset |-> 0]
    ELSE IF r.pos - 1 >= 0 /\ r.pos - 1 < Len(s)
         THEN [addr |-> addr, symbol |-> s[r.pos][2],
               offset |-> wrapping_sub(addr, s[r.pos][1])]
         ELSE [addr |-> addr, symbol |-> Unknown, offset |-> addr]

\* symbols[pos] of the Ok arm is out of bounds: resolve panics
resolve_out_of_bounds(s, addr) ==
    LET r == binary_search_by_key(s, addr) IN r.ok /\ r.pos >= Len(s)

\* addr - sa overflows: a panic in a build with overflow checks, a wrapped
\* offset in one without
resolve_overflows(s, addr) ==
    LET r == binary_search_by_key(s, addr) IN
    /\ ~r.ok
    /\ r.pos - 1 >= 0
    /\ r.pos - 1 < Len(s)
    /\ s[r.pos][1] > addr

\* the two ways a call of resolve can end
resolve_may_panic(s, addr) ==
    resolve_out_of_bounds(s, addr) \/ resolve_overflows(s, addr)

resolve_may_return(s, addr) == ~resolve_out_of_bounds(s, addr)

(***************************************************************************)
(* Inputs                                                                  *)
(***************************************************************************)
LineA       == <<"2"," ","T"," ","a">>
LineB       == <<"4"," ","T"," ","b">>
LineCD      == <<"4"," ","t"," ","c"," ","d">>
LineUnknown == <<"0"," ","T"," ","<","u","n","k","n","o","w","n",">">>
LineBadHex  == <<"g"," ","T"," ","x">>
LineEmpty   == <<>>
LineHexOnly == <<"5">>

LineSet == {LineA, LineB, LineCD, LineUnknown, LineBadHex, LineEmpty, LineHexOnly}

Unreadable == [readable |-> FALSE, lines |-> <<>>]

\* every symbols.txt of at most MaxLines lines, and the unreadable one
Files ==
    {[readable |-> TRUE, lines |-> f] :
        f \in UNION {[1..k -> LineSet] : k \in 0..MaxLines}} \cup {Unreadable}

\* the symbols.txt files the pipeline is run on
PipelineFiles ==
    { [readable |-> TRUE, lines |-> <<LineB, LineA>>],
      [readable |-> TRUE, lines |-> <<LineCD, LineBadHex, LineA, LineB, LineCD>>],
      [readable |-> TRUE, lines |-> <<LineA, LineHexOnly>>],
      Unreadable }

Builds == [bsearch : {"early_exit", "branchless"}]

ExecInputs == {3, 4}
ReadInputs == {[pc |-> 2, addr |-> 1, val |-> 9, sz |-> 1]}
WriteInputs == {[pc |-> 5, addr |-> 4, val |-> 0, sz |-> 8]}
MmapInputs ==
    { [path |-> <<>>, base |-> 0, offset |-> 0, exec |-> FALSE],
      [path |-> <<"/","l">>, base |-> 8, offset |-> 1, exec |-> TRUE] }

(***************************************************************************)
(* Rendering                                                               *)
(***************************************************************************)
\* mutant of fmt_symoff: the offset is always printed
fmt_symoff_always_suffix(so) ==
    fmt_hex018(so.addr) \o <<" ", "(">> \o so.symbol \o <<"+">>
        \o fmt_hex(so.offset) \o <<")">>

\* impl Display for SymOff
fmt_symoff(so) ==
    IF so.offset # 0
    THEN fmt_hex018(so.addr) \o <<" ", "(">> \o so.symbol \o <<"+">>
             \o fmt_hex(so.offset) \o <<")">>
    ELSE fmt_hex018(so.addr) \o <<" ", "(">> \o so.symbol \o <<")">>

\* one println! of Tracer::trace: the text of each slot of the format string
fmt_operation(op) ==
    IF op.kind = "Exec"
    THEN [tag |-> <<"E","X","E","C">>, pc |-> fmt_symoff(op.pc)]
    ELSE IF op.kind = "Read"
    THEN [tag |-> <<"R","E","A","D">> \o to_digits(op.sz, 10),
          pc |-> fmt_symoff(op.pc), addr |-> fmt_symoff(op.addr),
          val |-> fmt_hex(op.val)]
    ELSE [tag |-> <<"W","R","I","T","E">> \o to_digits(op.sz, 10),
          pc |-> fmt_symoff(op.pc), addr |-> fmt_symoff(op.addr),
          val |-> fmt_hex(op.val)]

\* the for loop of Tracer::trace: one line per operation, in order
RECURSIVE render(_)
render(ops) ==
    IF ops = <<>> THEN <<>>
    ELSE <<fmt_operation(Head(ops))>> \o render(Tail(ops))

\* the eprintln! of Tracer::mmap
fmt_mmap(m) ==
    [path |-> m.path, base |-> <<"0","x">> \o to_digits(m.base, 16),
     offset |-> <<"0","x">> \o to_digits(m.offset, 16), exec |-> m.exec]

(***************************************************************************)
(* Threads                                                                 *)
(***************************************************************************)
\* the process is running: main has neither returned nor called exit
Alive == mainpc \in {"waiting", "waited"}

RECURSIVE SumLen(_, _)
SumLen(f, ws) ==
    IF ws = {} THEN 0
    ELSE LET w == CHOOSE v \in ws : TRUE IN Len(f[w]) + SumLen(f, ws \ {w})

Budget == SumLen(log, Workers) < MaxCallbacks

\* Tracer::init_tid on worker w
init_tid(w) ==
    /\ Alive
    /\ tstate[w] = "start"
    /\ LET r == load_lines(fs.lines, <<>>) IN
       IF ~fs.readable \/ r.panic
       THEN /\ tstate' = [tstate EXCEPT ![w] = "panicked"]
            /\ UNCHANGED symbols
       ELSE /\ tstate' = [tstate EXCEPT ![w] = "ready"]
            /\ symbols' = [symbols EXCEPT ![w] = sort_by_key(r.symbols)]
    /\ UNCHANGED <<fs, build, batch, stdout, stderr, log, mainpc>>

\* Tracer::mmap on worker w
mmap(w, m) ==
    /\ Alive
    /\ tstate[w] = "ready"
    /\ stderr' = [stderr EXCEPT ![w] =
                     IF Len(m.path) > 0 THEN Append(@, fmt_mmap(m)) ELSE @]
    /\ log' = [log EXCEPT ![w] = Append(@, [cb |-> "mmap", arg |-> m])]
    /\ UNCHANGED <<fs, build, tstate, symbols, batch, stdout, mainpc>>

\* mutant of exec: resolving consumes the table's last entry
exec_drains_symbols(w, pc) ==
    /\ Alive
    /\ tstate[w] = "ready"
    /\ batch' = [batch EXCEPT ![w] =
           Append(@, [kind |-> "Exec", pc |-> resolve(symbols[w], pc)])]
    /\ symbols' = [symbols EXCEPT ![w] =
           IF @ = <<>> THEN @ ELSE SubSeq(@, 1, Len(@) - 1)]
    /\ log' = [log EXCEPT ![w] = Append(@, [cb |-> "exec", pc |-> pc])]
    /\ UNCHANGED <<fs, build, tstate, stdout, stderr, mainpc>>

\* Tracer::exec on worker w
exec(w, pc) ==
    /\ Alive
    /\ tstate[w] = "ready"
    /\ \/ /\ resolve_may_panic(symbols[w], pc)
          /\ tstate' = [tstate EXCEPT ![w] = "panicked"]
          /\ UNCHANGED batch
       \/ /\ resolve_may_return(symbols[w], pc)
          /\ batch' = [batch EXCEPT ![w] =
                 Append(@, [kind |-> "Exec", pc |-> resolve(symbols[w], pc)])]
          /\ UNCHANGED tstate
    /\ log' = [log EXCEPT ![w] = Append(@, [cb |-> "exec", pc |-> pc])]
    /\ UNCHANGED <<fs, build, symbols, stdout, stderr, mainpc>>

\* mutant of read: both fields are resolved from pc
read_copy_paste(w, e) ==
    /\ Alive
    /\ tstate[w] = "ready"
    /\ batch' = [batch EXCEPT ![w] =
           Append(@, [kind |-> "Read",
                      pc   |-> resolve(symbols[w], e.pc),
                      addr |-> resolve(symbols[w], e.pc),
                      val  |-> e.val,
                      sz   |-> e.sz])]
    /\ log' = [log EXCEPT ![w] = Append(@,
                  [cb |-> "read", pc |-> e.pc, addr |-> e.addr,
                   val |-> e.val, sz |-> e.sz])]
    /\ UNCHANGED <<fs, build, tstate, symbols, stdout, stderr, mainpc>>

\* Tracer::read on worker w
read(w, e) ==
    /\ Alive
    /\ tstate[w] = "ready"
    /\ \/ /\ resolve_may_panic(symbols[w], e.pc)
             \/ resolve_may_panic(symbols[w], e.addr)
          /\ tstate' = [tstate EXCEPT ![w] = "panicked"]
          /\ UNCHANGED batch
       \/ /\ resolve_may_return(symbols[w], e.pc)
          /\ resolve_may_return(symbols[w], e.addr)
          /\ batch' = [batch EXCEPT ![w] =
                 Append(@, [kind |-> "Read",
                            pc   |-> resolve(symbols[w], e.pc),
                            addr |-> resolve(symbols[w], e.addr),
                            val  |-> e.val,
                            sz   |-> e.sz])]
          /\ UNCHANGED tstate
    /\ log' = [log EXCEPT ![w] = Append(@,
                  [cb |-> "read", pc |-> e.pc, addr |-> e.addr,
                   val |-> e.val, sz |-> e.sz])]
    /\ UNCHANGED <<fs, build, symbols, stdout, stderr, mainpc>>

\* Tracer::write on worker w
write(w, e) ==
    /\ Alive
    /\ tstate[w] = "ready"
    /\ \/ /\ resolve_may_panic(symbols[w], e.pc)
             \/ resolve_may_panic(symbols[w], e.addr)
          /\ tstate' = [tstate EXCEPT ![w] = "panicked"]
          /\ UNCHANGED batch
       \/ /\ resolve_may_return(symbols[w], e.pc)
          /\ resolve_may_return(symbols[w], e.addr)
          /\ batch' = [batch EXCEPT ![w] =
                 Append(@, [kind |-> "Write",
                            pc   |-> resolve(symbols[w], e.pc),
                            addr |-> resolve(symbols[w], e.addr),
                            val  |-> e.val,
                            sz   |-> e.sz])]
          /\ UNCHANGED tstate
    /\ log' = [log EXCEPT ![w] = Append(@,
                  [cb |-> "write", pc |-> e.pc, addr |-> e.addr,
                   val |-> e.val, sz |-> e.sz])]
    /\ UNCHANGED <<fs, build, symbols, stdout, stderr, mainpc>>

\* Tracer::trace on worker w, handed the worker's batch
trace(w) ==
    /\ Alive
    /\ tstate[w] = "ready"
    /\ stdout' = [stdout EXCEPT ![w] = @ \o render(batch[w])]
    /\ tstate' = [tstate EXCEPT ![w] = "traced"]
    /\ log' = [log EXCEPT ![w] = Append(@, [cb |-> "trace"])]
    /\ UNCHANGED <<fs, build, symbols, batch, stderr, mainpc>>

\* the worker's loop after trace returned: the batch is emptied for the
\* next delivery
clear_batch(w) ==
    /\ Alive
    /\ tstate[w] = "traced"
    /\ batch' = [batch EXCEPT ![w] = <<>>]
    /\ tstate' = [tstate EXCEPT ![w] = "ready"]
    /\ UNCHANGED <<fs, build, symbols, stdout, stderr, log, mainpc>>

\* tracer.is_finished(): create_cannoli returned or panicked, which it
\* does not do while one of its workers runs
tracer_is_finished == \A w \in Workers : tstate[w] = "panicked"

\* main: qemu_proc.wait().unwrap() returns, the target process has ended
main_wait ==
    /\ mainpc = "waiting"
    /\ mainpc' = "waited"
    /\ UNCHANGED <<fs, build, tstate, symbols, batch, stdout, stderr, log>>

\* main: if tracer.is_finished() { tracer.join() } else { exit(0) }
main_finish ==
    /\ mainpc = "waited"
    /\ mainpc' = IF tracer_is_finished THEN "joined" ELSE "exited"
    /\ UNCHANGED <<fs, build, tstate, symbols, batch, stdout, stderr, log>>

(***************************************************************************)
(* Specifications                                                          *)
(***************************************************************************)
InitThreads ==
    /\ tstate = [w \in Workers |-> "start"]
    /\ symbols = [w \in Workers |-> <<>>]
    /\ batch = [w \in Workers |-> <<>>]
    /\ stdout = [w \in Workers |-> <<>>]
    /\ stderr = [w \in Workers |-> <<>>]
    /\ log = [w \in Workers |-> <<>>]
    /\ mainpc = "waiting"

\* the pipeline: every thread, a few symbol files, a few events
Init ==
    /\ fs \in PipelineFiles
    /\ build \in Builds
    /\ InitThreads

Next ==
    \/ \E w \in Workers : init_tid(w)
    \/ \E w \in Workers, m \in MmapInputs : Budget /\ mmap(w, m)
    \/ \E w \in Workers, pc \in ExecInputs : Budget /\ exec(w, pc)
    \/ \E w \in Workers, e \in ReadInputs : Budget /\ read(w, e)
    \/ \E w \in Workers, e \in WriteInputs : Budget /\ write(w, e)
    \/ \E w \in Workers : Budget /\ trace(w)
    \/ \E w \in Workers : clear_batch(w)
    \/ main_wait
    \/ main_finish

Spec == Init /\ [][Next]_vars

\* the loader and the resolver: every symbol file, every address, one call
InitResolve ==
    /\ fs \in Files
    /\ build \in Builds
    /\ InitThreads

FirstCallback == \A w \in Workers : log[w] = <<>>

NextResolve ==
    \/ \E w \in Workers : init_tid(w)
    \/ \E w \in Workers, pc \in U64 : FirstCallback /\ exec(w, pc)

SpecResolve == InitResolve /\ [][NextResolve]_vars

(***************************************************************************)
(* Vocabulary of the properties                                            *)
(***************************************************************************)
\* worker w holds a ThreadContext: init_tid returned
Loaded(w) == tstate[w] \in {"ready", "traced"}

Addresses(s) == {s[i][1] : i \in 1..Len(s)}

Sorted(s) == \A i \in 1..(Len(s) - 1) : s[i][1] <= s[i + 1][1]

DistinctAddresses(s) ==
    \A i, j \in 1..Len(s) : i # j => s[i][1] # s[j][1]

\* some table address is at or below x
HasBelow(s, x) == \E a \in Addresses(s) : a <= x

\* the greatest table address at or below x
NearestBelow(s, x) ==
    CHOOSE a \in Addresses(s) : a <= x /\ \A b \in Addresses(s) : b <= x => b <= a

\* the names the table gives address a
NamesAt(s, a) == {s[i][2] : i \in {j \in 1..Len(s) : s[j][1] = a}}

\* worker w was handed exactly one callback, an exec: the call of resolve
\* the loader/resolver specification makes
Probed(w) == Len(log[w]) = 1 /\ log[w][1].cb = "exec"

\* the address that call resolved, and what it returned
ProbeAddr(w) == log[w][1].pc
ProbeReturned(w) == tstate[w] = "ready" /\ Len(batch[w]) = 1
ProbeResult(w) == batch[w][1].pc

EndsWith(text, tail) ==
    /\ Len(tail) <= Len(text)
    /\ SubSeq(text, Len(text) - Len(tail) + 1, Len(text)) = tail

\* the index of the last trace callback among the first n entries of l, or 0
LastTrace(l, n) ==
    LET at == {i \in 1..n : l[i].cb = "trace"} IN
    IF at = {} THEN 0 ELSE CHOOSE i \in at : \A j \in at : j <= i

\* the events delivered to w for the batch it holds now: those since the
\* last flush, or those of the flush that is being completed
CurrentDelivery(w) ==
    LET l == log[w] IN
    IF tstate[w] = "traced"
    THEN SubSeq(l, LastTrace(l, Len(l) - 1) + 1, Len(l) - 1)
    ELSE SubSeq(l, LastTrace(l, Len(l)) + 1, Len(l))

\* the Operation the spec asks for an event
ExpectedOperation(s, e) ==
    IF e.cb = "exec"
    THEN [kind |-> "Exec", pc |-> resolve(s, e.pc)]
    ELSE [kind |-> IF e.cb = "read" THEN "Read" ELSE "Write",
          pc |-> resolve(s, e.pc), addr |-> resolve(s, e.addr),
          val |-> e.val, sz |-> e.sz]

\* one Operation per exec / read / write event, in order, nothing else
RECURSIVE ExpectedBatch(_, _)
ExpectedBatch(s, events) ==
    IF events = <<>> THEN <<>>
    ELSE IF Head(events).cb \in {"exec", "read", "write"}
         THEN <<ExpectedOperation(s, Head(events))>>
                  \o ExpectedBatch(s, Tail(events))
         ELSE ExpectedBatch(s, Tail(events))

\* the tag the spec asks for an operation: EXEC, READ<size>, WRITE<size>
ExpectedTag(op) ==
    IF op.kind = "Exec" THEN <<"E","X","E","C">>
    ELSE (IF op.kind = "Read" THEN <<"R","E","A","D">> ELSE <<"W","R","I","T","E">>)
             \o to_digits(op.sz, 10)

\* text renders the resolved address so: its address first, then the symbol
\* in parentheses, followed by +0x<offset> exactly when the offset is not 0
RendersSymOff(text, so) ==
    /\ SubSeq(text, 1, 2) = <<"0", "x">>
    /\ Len(text) > 18
    /\ IF so.offset # 0
       THEN EndsWith(text, <<"(">> \o so.symbol \o <<"+", "0", "x">>
                               \o to_digits(so.offset, 16) \o <<")">>)
       ELSE EndsWith(text, <<"(">> \o so.symbol \o <<")">>)

\* line describes op
LineDescribes(line, op) ==
    /\ line.tag = ExpectedTag(op)
    /\ RendersSymOff(line.pc, op.pc)
    /\ op.kind # "Exec" => RendersSymOff(line.addr, op.addr)

(***************************************************************************)
(* Properties of the loader and the resolver, under SpecResolve            *)
(***************************************************************************)
\* C1: on a table of distinct addresses, for an address X with a table
\* address at or below it, resolve(X) returns addr = X, the name of the
\* entry with the greatest address A <= X, and offset = X - A.
C1_NearestBelow ==
    \A w \in Workers :
        (/\ Probed(w)
         /\ DistinctAddresses(symbols[w])
         /\ HasBelow(symbols[w], ProbeAddr(w)))
        => LET x == ProbeAddr(w)
               a == NearestBelow(symbols[w], x)
           IN  /\ ProbeReturned(w)
               /\ ProbeResult(w).addr = x
               /\ NamesAt(symbols[w], a) = {ProbeResult(w).symbol}
               /\ ProbeResult(w).offset = x - a

\* an address strictly between two adjacent entries of a table of distinct
\* addresses was resolved
C1_Witness ==
    \E w \in Workers :
        /\ Probed(w) /\ ProbeReturned(w)
        /\ DistinctAddresses(symbols[w])
        /\ Len(symbols[w]) >= 2
        /\ symbols[w][1][1] < ProbeAddr(w)
        /\ ProbeAddr(w) < symbols[w][2][1]

C3_AsStated ==
    \A w \in Workers :
        (Probed(w) /\ ProbeReturned(w)) =>
            LET r == ProbeResult(w) IN
            IF r.offset = 0
            THEN r.symbol \in NamesAt(symbols[w], r.addr)
            ELSE /\ HasBelow(symbols[w], r.addr)
                 /\ r.symbol \in
                        NamesAt(symbols[w], NearestBelow(symbols[w], r.addr))
                 /\ r.offset = r.addr - NearestBelow(symbols[w], r.addr)

\* C3 amended: when some table address is at or below the raw address the
\* result is as stated; when none is, the symbol is "<unknown>" and the
\* offset is the raw address, which is 0 for address 0.
C3_Amended ==
    \A w \in Workers :
        (Probed(w) /\ ProbeReturned(w)) =>
            LET r == ProbeResult(w) IN
            /\ r.addr = ProbeAddr(w)
            /\ IF ~HasBelow(symbols[w], r.addr)
               THEN r.symbol = Unknown /\ r.offset = r.addr
               ELSE IF r.offset = 0
               THEN r.symbol \in NamesAt(symbols[w], r.addr)
               ELSE /\ r.symbol \in
                        NamesAt(symbols[w], NearestBelow(symbols[w], r.addr))
                    /\ r.offset = r.addr - NearestBelow(symbols[w], r.addr)

\* address 0 was resolved on a non-empty table with no entry at 0
C3_Witness ==
    \E w \in Workers :
        /\ Probed(w) /\ ProbeReturned(w)
        /\ symbols[w] # <<>>
        /\ ProbeAddr(w) = 0
        /\ ProbeResult(w).offset = 0
        /\ ProbeResult(w).symbol = Unknown
        /\ ~HasBelow(symbols[w], 0)

\* a line the spec calls well-formed: a hexadecimal first field and at
\* least three space-separated fields
WellFormed(line) ==
    LET chunk == splitn(line, 3) IN
    from_str_radix(chunk[1]).ok /\ Len(chunk) = 3

WellFormedEntry(line) ==
    LET chunk == splitn(line, 3) IN <<from_str_radix(chunk[1]).val, chunk[3]>>

\* C4: a malformed line is discarded and loading goes on: the load of a
\* readable file never fails, and the table holds one entry per well-formed
\* line and none for a malformed one.
C4_AsStated ==
    \A w \in Workers :
        (fs.readable /\ tstate[w] # "start") =>
            /\ Loaded(w)
            /\ LET good == {i \in 1..Len(fs.lines) : WellFormed(fs.lines[i])}
               IN  /\ Len(symbols[w]) = Cardinality(good)
                   /\ \A i \in good :
                          Cardinality({j \in 1..Len(symbols[w]) :
                              symbols[w][j] = WellFormedEntry(fs.lines[i])})
                          = Cardinality({k \in good :
                              WellFormedEntry(fs.lines[k])
                                  = WellFormedEntry(fs.lines[i])})

\* C10: resolve is total: it never indexes out of bounds, addr - sa never
\* underflows because the candidate's address is at most addr, and every
\* result has the input address and an offset between 0 and that address.
C10_Total ==
    \A w \in Workers :
        Probed(w) =>
            LET x == ProbeAddr(w)
                s == symbols[w]
                b == binary_search_by_key(s, x)
            IN  /\ ProbeReturned(w)
                /\ b.ok => b.pos >= 0 /\ b.pos < Len(s)
                /\ ~b.ok => /\ b.pos >= 0 /\ b.pos <= Len(s)
                            /\ b.pos > 0 => s[b.pos][1] <= x
                /\ ProbeResult(w).addr = x
                /\ ProbeResult(w).offset >= 0
                /\ ProbeResult(w).offset <= x

\* the greatest address was resolved on a table with a repeated address,
\* to a symbol below it
C10_Witness ==
    \E w \in Workers :
        /\ Probed(w) /\ ProbeReturned(w)
        /\ ProbeAddr(w) = Modulus - 1
        /\ ~DistinctAddresses(symbols[w])
        /\ ProbeResult(w).offset > 0
        /\ ProbeResult(w).symbol # Unknown

(***************************************************************************)
(* Properties of the pipeline, under Spec                                  *)
(***************************************************************************)
\* C5: the table a worker holds is sorted ascending by address right after
\* init_tid, whatever the order of the lines, and stays sorted under every
\* sequence of callbacks.
C5_Sorted == \A w \in Workers : Loaded(w) => Sorted(symbols[w])

\* a worker loaded a file whose lines are not in address order and has
\* been handed callbacks since
C5_Witness ==
    \E w \in Workers :
        /\ Loaded(w)
        /\ Len(symbols[w]) >= 2
        /\ ~Sorted(load_lines(fs.lines, <<>>).symbols)
        /\ Len(log[w]) >= 2

\* C6: each worker's batch is, in delivery order, exactly one Operation per
\* exec / read / write event delivered for it (resolved addresses, value
\* and size unchanged); mmap adds nothing; no worker's events touch
\* another worker's batch.
C6_Batch ==
    \A w \in Workers :
        batch[w] = ExpectedBatch(symbols[w], CurrentDelivery(w))

\* one worker holds a read after an mmap with a path, the other an exec
C6_Witness ==
    \E w, v \in Workers :
        /\ w # v
        /\ Len(log[w]) = 2
        /\ log[w][1].cb = "mmap" /\ log[w][1].arg.path # <<>>
        /\ log[w][2].cb = "read"
        /\ Len(batch[w]) = 1
        /\ Len(batch[v]) = 1 /\ batch[v][1].kind = "Exec"

\* C7: trace, handed a batch of n operations, prints exactly n lines, the
\* i-th describing the i-th operation with its tag and its addresses, the
\* +0x<offset> suffix present exactly when the offset is not 0; it changes
\* neither the batch nor the table.
C7_Render ==
    [][\A w \in Workers :
          (tstate[w] = "ready" /\ tstate'[w] = "traced") =>
              LET old == Len(stdout[w])
                  new == SubSeq(stdout'[w], old + 1, Len(stdout'[w]))
              IN  /\ SubSeq(stdout'[w], 1, old) = stdout[w]
                  /\ Len(new) = Len(batch[w])
                  /\ \A i \in 1..Len(new) : LineDescribes(new[i], batch[w][i])
                  /\ batch' = batch
                  /\ symbols' = symbols]_vars

\* a batch of two execs was rendered on the table [(2,"a"), (4,"b")]: pc 3
\* as a+0x1, pc 4 as b without a suffix
C7_Witness ==
    \E w \in Workers :
        /\ tstate[w] = "traced"
        /\ Len(stdout[w]) = 2
        /\ Len(batch[w]) = 2
        /\ batch[w][1].pc.addr = 3 /\ batch[w][2].pc.addr = 4
        /\ EndsWith(stdout[w][1].pc, <<"(", "a", "+", "0", "x", "1", ")">>)
        /\ EndsWith(stdout[w][2].pc, <<"(", "b", ")">>)

\* C8: by the time the program has ended, every Operation appended to a
\* batch has been rendered exactly once: each worker's output is the
\* rendering of all the operations its events produced.
C8_AsStated ==
    mainpc \in {"exited", "joined"} =>
        \A w \in Workers :
            stdout[w] = render(ExpectedBatch(symbols[w], log[w]))

\* C9: no callback changes a loaded table, so after any step resolve still
\* returns, for every address resolved before, the result it returned
\* then; and an address the table holds more than once resolves to offset 0
\* and the name of one of its entries.
C9_Deterministic ==
    [][\A w \in Workers :
          Loaded(w) =>
              /\ symbols'[w] = symbols[w]
              /\ build' = build
              /\ \A i \in 1..Len(batch[w]) :
                     /\ resolve(symbols'[w], batch[w][i].pc.addr)
                            = batch[w][i].pc
                     /\ batch[w][i].kind # "Exec" =>
                            resolve(symbols'[w], batch[w][i].addr.addr)
                                = batch[w][i].addr
              /\ \A a \in Addresses(symbols'[w]) :
                     /\ resolve(symbols'[w], a).offset = 0
                     /\ resolve(symbols'[w], a).symbol
                            \in NamesAt(symbols'[w], a)]_vars

\* a repeated address was resolved twice, with another callback in
\* between, to the same result
C9_Witness ==
    \E w \in Workers :
        /\ Len(batch[w]) = 2
        /\ Len(log[w]) = 3
        /\ log[w][2].cb = "mmap"
        /\ Cardinality(NamesAt(symbols[w], 4)) > 1
        /\ batch[w][1].pc.addr = 4
        /\ batch[w][1] = batch[w][2]

====
